---- MODULE Spec2Model ----
(***************************************************************************)
(* A model of pyframework: the schema objects of core/Table.py (Column,   *)
(* the constraint classes and their validation caches) and the query      *)
(* pipeline of AbstractSqlDatabase / AbstractMySqlTranslator.              *)
(*                                                                         *)
(* Python objects are modelled by value plus identity: a constraint is a  *)
(* record of its class, name, target and foreign column, and an ordinal   *)
(* that tells two otherwise equal instances apart.  A column's            *)
(* _constraints attribute is a reference to a list object: either the one *)
(* list that is the default value of Column.__init__'s `constraints`      *)
(* parameter (shared by every column built without that argument) or a    *)
(* list of the column's own.                                               *)
(***************************************************************************)
EXTENDS Integers, Sequences, FiniteSets, TLC

(***************************************************************************)
(* Bounds of the model.                                                    *)
(***************************************************************************)
\* how many constraint objects are ever constructed in one behaviour
MaxCons == 3

\* how many constraint objects are constructed in a behaviour that validates
MaxCached == 2

\* how many times one constraint's prepare() runs in one behaviour
MaxPrepares == 2

\* how many keys a Mapping, and how many members a list, of a query has
MaxKeys == 2

\* how many Table objects are constructed, those of the connection included
MaxTables == 4

\* how many parts (names and dots) a str given to Table.get_column has
MaxParts == 3

\* how many rows a response of the database has
MaxRows == 2

(***************************************************************************)
(* The schema the constraint model runs on: columns a and b of table T1   *)
(* and column c of table T2; a is NOT NULL, b and c are nullable.  A       *)
(* behaviour works on the columns that were built at its start.            *)
(***************************************************************************)
Cols == {"a", "b", "c"}

\* Column.table
TableOf(col) == IF col \in {"c", "d"} THEN "T2" ELSE "T1"

\* Column.null
ColNull(col) == col \notin {"a", "d"}

\* Column.default is not None
ColDefault(col) == col = "d"

\* the names get_constraint treats as categories
IndexNames == {"index", "primary", "unique"}

UniqueNames == {"unique", "primary"}

\* the `name` arguments tried for Index ("" is the default: no name); Unique
\* and ForeignKey are constructed without one
NameArgs == {"", "foobar"}

\* the absent constraint (Python's None where a constraint is expected)
NoConstraint == [kind |-> "None", name |-> "", target |-> "", foreign |-> "", n |-> 0]

\* get_constraint's last branch returns its argument
Argument(arg) == [kind |-> "Argument", name |-> arg, target |-> "", foreign |-> "", n |-> 0]

VARIABLES
    columns,       \* the Column objects that exist
    defaultList,   \* the list object that is the default of Column(constraints=...)
    constraints,   \* col -> [shared: the column references defaultList, own: its own list]
    made,          \* every constraint object constructed so far
    lastOp,        \* the last call on the schema objects and its outcome
    rows,          \* table -> the rows the table holds in the database
    values,        \* constraint -> its `values` attribute, for those that have it
    prepares,      \* constraint -> how many times its prepare() has run
    open,          \* AbstractDatabase.open
    tables,        \* AbstractDatabase._tables
    lastQuery,     \* the last call on the database and its outcome
    objects,       \* the Table objects in AbstractDatabase._tables, in their order
    attrs,         \* table name -> the Table object that is the attribute of that name
    schema,        \* table name -> the columns of the table on the database server
    known,         \* every Table object constructed so far
    lastCall,      \* the last schema or connection operation, its step and outcome
    seen,          \* what a reader saw when it last looked up the table being replaced
    got            \* the last call of Table.get_column, of interpret or of
                   \* Column.from_definition, and its outcome

consVars == <<columns, defaultList, constraints, made, lastOp>>

cacheVars == <<rows, values, prepares>>

queryVars == <<open, tables, lastQuery>>

schemaVars == <<objects, attrs, schema, known, lastCall, seen>>

tableVars == <<got>>

vars == <<consVars, cacheVars, queryVars, schemaVars, tableVars>>

(***************************************************************************)
(* The heap of constraint lists, as a value: [d: the default list,        *)
(* c: col -> [shared, own]].                                               *)
(***************************************************************************)
Heap == [d |-> defaultList, c |-> constraints]

\* Column.constraints: the list the column's _constraints refers to
ListOf(h, col) == IF h.c[col].shared THEN h.d ELSE h.c[col].own

\* col._constraints.append(k): mutates the list object in place
ListAppend(h, col, k) ==
    IF h.c[col].shared
    THEN [h EXCEPT !.d = Append(h.d, k)]
    ELSE [h EXCEPT !.c[col].own = Append(h.c[col].own, k)]

\* col._constraints = L: rebinds the attribute to a fresh list object
Rebind(h, col, L) == [h EXCEPT !.c[col] = [shared |-> FALSE, own |-> L]]

\* faulty variant: the list is left in insertion order
SortedFirst_Unsorted(ret, nm) == ret

\* sorted(ret, key=lambda x: x.name != nm): a stable sort, nm first
SortedFirst(ret, nm) ==
    SelectSeq(ret, LAMBDA k : k.name = nm) \o SelectSeq(ret, LAMBDA k : k.name # nm)

HasName(ret, nm) == \E i \in 1..Len(ret) : ret[i].name = nm

\* faulty variant: the other matches are not removed from the list
Collapse_NoRemoval(L, names, ret) == [ret |-> ret[1], list |-> L, rebound |-> TRUE]

\* faulty variant: the list keeps ret[-1:], the value returned is ret[0]
Collapse_KeepLast(L, names, ret) ==
    [ret |-> ret[1],
     list |-> SelectSeq(L, LAMBDA k : k.name \notin names) \o <<ret[Len(ret)]>>,
     rebound |-> TRUE]

\* the collapsing common to the three branches: keep `ret[0]`, drop the other matches
Collapse(L, names, ret) ==
    [ret |-> ret[1], list |-> SelectSeq(L, LAMBDA k : k.name \notin names) \o <<ret[1]>>,
     rebound |-> TRUE]

Keep(L, r) == [ret |-> r, list |-> L, rebound |-> FALSE]

(***************************************************************************)
(* Column.get_constraint(constraint) for a str argument, as a function of *)
(* the column's list: the value returned and the list the column holds    *)
(* afterwards (rebound: _constraints was assigned a new list object).     *)
(***************************************************************************)
GetConstraint(L, arg) ==
    LET idx == SelectSeq(L, LAMBDA k : k.name \in IndexNames)
        unq == SelectSeq(L, LAMBDA k : k.name \in UniqueNames)
        nam == SelectSeq(L, LAMBDA k : k.name = arg)
    IN  IF arg = "index"
        THEN IF Len(idx) = 0 THEN Keep(L, NoConstraint)
             ELSE IF Len(idx) > 1
             THEN Collapse(L, IndexNames,
                           IF HasName(idx, "primary") THEN SortedFirst(idx, "primary")
                           ELSE IF HasName(idx, "unique") THEN SortedFirst(idx, "unique")
                           ELSE idx)
             ELSE Keep(L, idx[1])
        ELSE IF arg \in UniqueNames
        THEN IF Len(unq) = 0 THEN Keep(L, NoConstraint)
             ELSE IF Len(unq) > 1
             THEN Collapse(L, UniqueNames,
                           IF HasName(unq, "primary") /\ unq[1].name # "primary"
                           THEN SortedFirst(unq, "primary")
                           ELSE unq)
             ELSE Keep(L, unq[1])
        ELSE IF HasName(L, arg)
        THEN IF Len(nam) > 1 THEN Collapse(L, {arg}, nam) ELSE Keep(L, nam[1])
        ELSE Keep(L, Argument(arg))

\* the heap after col.get_constraint(arg)
AfterGetConstraint(h, col, arg) ==
    LET r == GetConstraint(ListOf(h, col), arg)
    IN  IF r.rebound THEN Rebind(h, col, r.list) ELSE h

(***************************************************************************)
(* Constraint construction.                                                *)
(***************************************************************************)
\* a new constraint object: equal descriptors are told apart by the ordinal
NewConstraint(kind, name, target, foreign) ==
    [kind |-> kind, name |-> name, target |-> target, foreign |-> foreign,
     n |-> Cardinality({k \in made : /\ k.kind = kind /\ k.name = name
                                     /\ k.target = target /\ k.foreign = foreign})]

\* AbstractConstraint.__init__: `if name: self._name = name`, else the class's _name
NameOr(nameArg, className) == IF nameArg = "" THEN className ELSE nameArg

\* faulty variant: the nullability check is missing
PrimaryKeyRaises_Never(target) == FALSE

\* PrimaryKey.__init__: `if target.null: raise ValueError`
PrimaryKeyRaises(target) == ColNull(target)

\* faulty variant: only a key of a column on itself is refused
ForeignKeyRaises_SameColumn(target, foreign) == target = foreign

\* ForeignKey.__init__: `if target.table == foreign.table: raise ValueError`
ForeignKeyRaises(target, foreign) == TableOf(target) = TableOf(foreign)

\* ForeignKey.__init__: the default name
ForeignKeyName(target, foreign) ==
    "fk_" \o TableOf(target) \o "_" \o target \o "_" \o foreign

\* ForeignKey.__init__: `if not self.foreign.get_constraint("index"): Index(foreign)`
ForeignNeedsIndex(L) == GetConstraint(L, "index").ret = NoConstraint

\* no call is in progress: the caller has taken the last outcome
Idle == [op |-> "idle", col |-> "", other |-> "", arg |-> "", ret |-> NoConstraint,
         err |-> "", rep |-> FALSE, self |-> NoConstraint, value |-> 0]

\* the outcome of a call on a column or of a constructor; rep: the call before
\* it was the same call
Op(op, col, other, arg, ret, err) ==
    [op |-> op, col |-> col, other |-> other, arg |-> arg, ret |-> ret, err |-> err,
     rep |-> /\ lastOp.op = op /\ lastOp.col = col /\ lastOp.other = other
             /\ lastOp.arg = arg,
     self |-> NoConstraint, value |-> 0]

SetHeap(h) == defaultList' = h.d /\ constraints' = h.c /\ columns' = columns

\* Index(col, name=nameArg)
Index(col, nameArg) ==
    LET k == NewConstraint("Index", NameOr(nameArg, "index"), col, "")
    IN  /\ lastOp = Idle
        /\ Cardinality(made) < MaxCons
        /\ SetHeap(ListAppend(Heap, col, k))
        /\ made' = made \cup {k}
        /\ lastOp' = Op("Index", col, "", nameArg, k, "")
        /\ UNCHANGED <<cacheVars, queryVars, schemaVars, tableVars>>

\* Unique(col, name=nameArg)
Unique(col, nameArg) ==
    LET k == NewConstraint("Unique", NameOr(nameArg, "unique"), col, "")
    IN  /\ lastOp = Idle
        /\ Cardinality(made) < MaxCons
        /\ SetHeap(ListAppend(Heap, col, k))
        /\ made' = made \cup {k}
        /\ lastOp' = Op("Unique", col, "", nameArg, k, "")
        /\ UNCHANGED <<cacheVars, queryVars, schemaVars, tableVars>>

\* PrimaryKey(col)
PrimaryKey(col) ==
    LET k == NewConstraint("PrimaryKey", "primary", col, "")
    IN  /\ lastOp = Idle
        /\ Cardinality(made) < MaxCons
        /\ UNCHANGED <<cacheVars, queryVars, schemaVars, tableVars>>
        /\ IF PrimaryKeyRaises(col)
           THEN /\ UNCHANGED <<columns, defaultList, constraints, made>>
                /\ lastOp' = Op("PrimaryKey", col, "", "", NoConstraint, "ValueError")
           ELSE /\ SetHeap(ListAppend(Heap, col, k))
                /\ made' = made \cup {k}
                /\ lastOp' = Op("PrimaryKey", col, "", "", k, "")

\* ForeignKey(target, foreign, name=nameArg)
ForeignKey(target, foreign, nameArg) ==
    LET fk == NewConstraint("ForeignKey",
                            NameOr(nameArg, ForeignKeyName(target, foreign)),
                            target, foreign)
        h1 == ListAppend(Heap, target, fk)
        h2 == ListAppend(h1, foreign, fk)
        needs == ForeignNeedsIndex(ListOf(h2, foreign))
        h3 == AfterGetConstraint(h2, foreign, "index")
        ix == NewConstraint("Index", "index", foreign, "")
    IN  /\ lastOp = Idle
        /\ Cardinality(made) + (IF needs THEN 2 ELSE 1) <= MaxCons
        /\ UNCHANGED <<cacheVars, queryVars, schemaVars, tableVars>>
        /\ IF ForeignKeyRaises(target, foreign)
           THEN /\ UNCHANGED <<columns, defaultList, constraints, made>>
                /\ lastOp' = Op("ForeignKey", target, foreign, nameArg, NoConstraint,
                                "ValueError")
           ELSE /\ SetHeap(IF needs THEN ListAppend(h3, foreign, ix) ELSE h3)
                /\ made' = made \cup {fk} \cup (IF needs THEN {ix} ELSE {})
                /\ lastOp' = Op("ForeignKey", target, foreign, nameArg, fk, "")

\* the str arguments tried for get_constraint
ConstraintArgs == IndexNames \cup {"foobar"}

\* col.get_constraint(arg); also what the properties key, unique and primary call
get_constraint(col, arg) ==
    /\ \/ lastOp = Idle
       \/ /\ lastOp.op = "get_constraint" /\ lastOp.col = col /\ lastOp.arg = arg
          /\ ~lastOp.rep
    /\ SetHeap(AfterGetConstraint(Heap, col, arg))
    /\ made' = made
    /\ lastOp' = Op("get_constraint", col, "", arg,
                    GetConstraint(ListOf(Heap, col), arg).ret, "")
    /\ UNCHANGED <<cacheVars, queryVars, schemaVars, tableVars>>

\* L.pop(L.index(k)): the list without the first occurrence of k
Pop(L, k) ==
    LET i == CHOOSE j \in 1..Len(L) : L[j] = k /\ \A m \in 1..(j - 1) : L[m] # k
    IN  SubSeq(L, 1, i - 1) \o SubSeq(L, i + 1, Len(L))

\* the heap after a drop that finds k: the target's list object is mutated in place
AfterDrop(h, k) ==
    IF h.c[k.target].shared
    THEN [h EXCEPT !.d = Pop(h.d, k)]
    ELSE [h EXCEPT !.c[k.target].own = Pop(h.c[k.target].own, k)]

\* k.drop(): AbstractConstraint.drop, inherited by every constraint class;
\* list.index raises ValueError when k is not in the target's list
drop(k) ==
    LET L == ListOf(Heap, k.target)
        found == \E j \in 1..Len(L) : L[j] = k
    IN  /\ lastOp = Idle
        /\ made' = made
        /\ IF found THEN SetHeap(AfterDrop(Heap, k))
                    ELSE UNCHANGED <<columns, defaultList, constraints>>
        /\ lastOp' = [Op("drop", k.target, k.foreign, "", NoConstraint,
                         IF found THEN "" ELSE "ValueError") EXCEPT !.self = k]
        /\ UNCHANGED <<cacheVars, queryVars, schemaVars, tableVars>>

\* Table.constraints of table t: the constraints in the lists of its columns
Table_constraints(h, cols, t) ==
    UNION {{ListOf(h, col)[j] : j \in 1..Len(ListOf(h, col))} :
             col \in {c \in cols : TableOf(c) = t}}

(***************************************************************************)
(* The validation caches.  A constraint's prepare() reads its table       *)
(* through Table.select / Table.distinct, which answer with the rows the  *)
(* table holds at that moment, restricted to the columns asked for; a row *)
(* is a function from the table's columns to values.  Of Index.values,    *)
(* a dict from key to the rest of the row, the model keeps the keys: the  *)
(* code reads nothing else of it.                                          *)
(***************************************************************************)
\* the values a column holds and validate is asked about
Values == {1, 2}

Tables == {"T1", "T2"}

\* Table.columns
TableColumns(t) == {col \in columns : TableOf(col) = t}

\* the values of column col over the rows of table t
KeysOf(t, col) == {r[col] : r \in rows[t]}

\* Python's True and False where a constraint is expected
Bool(b) == [kind |-> "bool", name |-> IF b THEN "True" ELSE "False", target |-> "",
            foreign |-> "", n |-> 0]

\* hasattr(k, "values")
HasValues(vals, k) == k \in DOMAIN vals

\* k.values = x
SetValues(vals, k, x) == [j \in DOMAIN vals \cup {k} |-> IF j = k THEN x ELSE vals[j]]

\* one more run of k.prepare()
Ran(p, k) ==
    [j \in DOMAIN p \cup {k} |->
        IF j = k THEN (IF k \in DOMAIN p THEN p[k] ELSE 0) + 1 ELSE p[j]]

\* the objects a validate call works on
World == [h |-> Heap, values |-> values, prepares |-> prepares, err |-> ""]

\* `[column.get_constraint("index") for column in table.columns]`: every column
\* of the table has its list collapsed; no call changes what another one reads
CollapseAll(h, cols) ==
    [d |-> h.d,
     c |-> [col \in DOMAIN h.c |->
              IF col \in cols /\ GetConstraint(ListOf(h, col), "index").rebound
              THEN [shared |-> FALSE, own |-> GetConstraint(ListOf(h, col), "index").list]
              ELSE h.c[col]]]

\* Index.prepare: select the targets of the table's index constraints, then
\* `self.values = {}` and one key per row, popped from the row by the target's
\* name (KeyError when the target is not among the selected columns)
Index_prepare(w, k) ==
    LET t == TableOf(k.target)
        all_keys == {GetConstraint(ListOf(w.h, col), "index").ret :
                        col \in TableColumns(t)} \ {NoConstraint}
        selected == {c.target : c \in all_keys}
        w1 == [w EXCEPT !.h = CollapseAll(w.h, TableColumns(t)),
                        !.prepares = Ran(w.prepares, k)]
    IN  IF k.target \notin selected /\ rows[t] # {}
        THEN [w1 EXCEPT !.values = SetValues(w.values, k, {}), !.err = "KeyError"]
        ELSE [w1 EXCEPT !.values = SetValues(w.values, k,
                                       IF k.target \in selected THEN KeysOf(t, k.target)
                                       ELSE {})]

\* Unique.prepare: the distinct values of the target column
Unique_prepare(w, k) ==
    [w EXCEPT !.values = SetValues(w.values, k, KeysOf(TableOf(k.target), k.target)),
              !.prepares = Ran(w.prepares, k)]

\* the prepare of the class of k
Prepare(w, k) == IF k.kind = "Index" THEN Index_prepare(w, k) ELSE Unique_prepare(w, k)

\* ForeignKey.prepare: `index = self.foreign.get_constraint("index")`,
\* `index.prepare()`, `self.values = list(index.values.keys())`
ForeignKey_prepare(w, fk) ==
    LET index == GetConstraint(ListOf(w.h, fk.foreign), "index").ret
        w1 == [w EXCEPT !.h = AfterGetConstraint(w.h, fk.foreign, "index"),
                        !.prepares = Ran(w.prepares, fk)]
        w2 == Prepare(w1, index)
    IN  IF index = NoConstraint THEN [w1 EXCEPT !.err = "AttributeError"]
        ELSE IF w2.err # "" THEN w2
        ELSE IF index.kind # "Index" THEN [w2 EXCEPT !.err = "AttributeError"]
        ELSE [w2 EXCEPT !.values = SetValues(w2.values, fk, w2.values[index])]

\* faulty variant: a value is refused when the cache does not hold it
UniqueRaises_Absent(vals, value) == value \notin vals

\* Unique.validate: `if value in self.values: raise ValueError`
UniqueRaises(vals, value) == value \in vals

\* the outcome of k.validate(value)
OpValidate(k, value, ret, err) ==
    [Op("validate", k.target, k.foreign, "", ret, err) EXCEPT !.self = k, !.value = value]

SetWorld(w) ==
    /\ defaultList' = w.h.d
    /\ constraints' = w.h.c
    /\ values' = w.values
    /\ prepares' = w.prepares
    /\ UNCHANGED <<columns, made, rows, queryVars, schemaVars, tableVars>>

\* Index.validate(value)
Index_validate(k, value) ==
    LET w == IF HasValues(values, k) THEN World ELSE Index_prepare(World, k)
    IN  /\ SetWorld(w)
        /\ lastOp' = OpValidate(k, value, IF w.err = "" THEN k ELSE NoConstraint, w.err)

\* Unique.validate(value), inherited by PrimaryKey
Unique_validate(k, value) ==
    LET w == IF HasValues(values, k) THEN World ELSE Unique_prepare(World, k)
    IN  /\ SetWorld(w)
        /\ lastOp' = IF UniqueRaises(w.values[k], value)
                     THEN OpValidate(k, value, NoConstraint, "ValueError")
                     ELSE OpValidate(k, value, k, "")

\* ForeignKey.validate(value): `return value in self.values`
ForeignKey_validate(k, value) ==
    LET w == IF HasValues(values, k) THEN World ELSE ForeignKey_prepare(World, k)
    IN  /\ SetWorld(w)
        /\ lastOp' = IF w.err # "" THEN OpValidate(k, value, NoConstraint, w.err)
                     ELSE OpValidate(k, value, Bool(value \in w.values[k]), "")

\* k.validate(value), for a constraint object the caller holds
validate(k, value) ==
    /\ lastOp = Idle
    /\ CASE k.kind = "Index" -> Index_validate(k, value)
         [] k.kind \in {"Unique", "PrimaryKey"} -> Unique_validate(k, value)
         [] k.kind = "ForeignKey" -> ForeignKey_validate(k, value)
    /\ \A j \in DOMAIN prepares' : prepares'[j] <= MaxPrepares

\* a row is written to table t by a client of the database
InsertRow(t, r) ==
    /\ lastOp = Idle
    /\ r \notin rows[t]
    /\ rows' = [rows EXCEPT ![t] = @ \cup {r}]
    /\ UNCHANGED <<consVars, values, prepares, queryVars, schemaVars, tableVars>>

\* no constraint has a cache, the tables are empty
NoCaches ==
    /\ rows = [t \in Tables |-> {}]
    /\ values = [k \in {} |-> {}]
    /\ prepares = [k \in {} |-> 0]

(***************************************************************************)
(* The database and its translator.  The database the connection opens    *)
(* holds tables T1 (columns a, b) and T2 (column c).  The arguments of a  *)
(* query are Python values: [t: the type, s: the text of a str, i: the    *)
(* number of an int, items: the keys of a Mapping in their order, or the  *)
(* members of a list].                                                     *)
(***************************************************************************)
None == [t |-> "None", s |-> "", i |-> 0, items |-> <<>>]

StrVal(s) == [t |-> "str", s |-> s, i |-> 0, items |-> <<>>]

IntVal(i) == [t |-> "int", s |-> "", i |-> i, items |-> <<>>]

\* a Column with dtype "comparison", as the comparison of a Column gives
Comparison == [t |-> "Column", s |-> "comparison", i |-> 0, items |-> <<>>]

Mapping(keys) == [t |-> "Mapping", s |-> "", i |-> 0, items |-> keys]

List(items) == [t |-> "list", s |-> "", i |-> 0, items |-> items]

\* `if v:` for the values above
Truthy(v) ==
    CASE v.t = "None" -> FALSE
      [] v.t = "str" -> v.s # ""
      [] v.t = "int" -> v.i # 0
      [] v.t \in {"Mapping", "list"} -> v.items # <<>>
      [] OTHER -> TRUE

\* AbstractDatabase._tables: a list of tables, or None
Registry(list) == [none |-> FALSE, list |-> list]

NoRegistry == [none |-> TRUE, list |-> <<>>]

\* the tables of the database the connection opens
DbTables == <<"T1", "T2">>

\* Table.column_names
ColumnNames(t) ==
    IF t = "T1" THEN <<"a", "b">> ELSE IF t = "T2" THEN <<"c", "d">> ELSE <<>>

Range(f) == {f[i] : i \in DOMAIN f}

\* AbstractDatabase.get_table for a str or a non-table: the table's name, "" for None
get_table(reg, v) == IF v.t = "str" /\ v.s \in Range(reg.list) THEN v.s ELSE ""

\* Table.get_column for a str or a non-column: the column's name, "" for None
get_column(t, v) ==
    IF v.t # "str" THEN ""
    ELSE IF v.s \in Range(ColumnNames(t)) THEN v.s
    ELSE IF \E c \in Range(ColumnNames(t)) : v.s = t \o "." \o c
         THEN CHOOSE c \in Range(ColumnNames(t)) : v.s = t \o "." \o c
    ELSE ""

\* the methods of Database.query the model covers, and one that is not a method
Methods == {"insert", "update", "select", "delete", "drop column", "rename table",
            "describe", "count"}

\* validate_and_raise, the loop over the keys of an insert or update: the
\* first key that is not a str raises TypeError, the first that is not a column
\* of the table raises ValueError, whichever comes first
KeysError(t, keys) ==
    LET bad == {i \in 1..Len(keys) : keys[i].t # "str" \/ get_column(t, keys[i]) = ""}
        first == CHOOSE i \in bad : \A j \in bad : i <= j
    IN  IF bad = {} THEN ""
        ELSE IF keys[first].t # "str" THEN "TypeError" ELSE "ValueError"

\* validate_and_raise, insert: `c.name not in fields` for a NOT NULL column
MissingRequired(t, keys) ==
    \E c \in Range(ColumnNames(t)) : ~ColNull(c) /\ StrVal(c) \notin Range(keys)

\* validate_and_raise, the checks of @fields for each method
FieldsError(reg, t, method, fields) ==
    CASE method = "insert" ->
            IF fields.t # "Mapping" THEN "TypeError"
            ELSE IF KeysError(t, fields.items) # "" THEN KeysError(t, fields.items)
            ELSE IF MissingRequired(t, fields.items) THEN "ValueError"
            ELSE ""
      [] method = "update" ->
            IF fields.t # "Mapping" THEN "TypeError" ELSE KeysError(t, fields.items)
      [] method = "rename table" ->
            IF fields.t # "str" THEN "TypeError"
            ELSE IF get_table(reg, fields) # "" THEN "ValueError"
            ELSE ""
      [] method = "drop column" ->
            IF fields.t # "str" THEN "TypeError"
            ELSE IF get_column(t, fields) = "" THEN "ValueError"
            ELSE ""
      [] method = "select" ->
            IF fields.t \in {"None", "int", "Column"} THEN "TypeError"
            ELSE IF fields.t = "Mapping"
                 THEN (IF fields.items = <<>> THEN "" ELSE "KeyError")
            ELSE IF fields.t = "list"
                 THEN (IF \E i \in 1..Len(fields.items) : get_column(t, fields.items[i]) = ""
                       THEN "TypeError" ELSE "")
            ELSE IF fields.s # "all" /\ get_column(t, fields) = "" THEN "ValueError"
            ELSE ""
      [] method \in {"delete", "describe"} -> ""
      [] OTHER -> "ValueError"

\* validate_and_raise, the modifier of one kind it goes on to check: delete
\* sets groupby, orderby and limit to None, describe sets where to None as well
Nulled(method, kind, v) ==
    IF method = "describe" \/ (method = "delete" /\ kind # "where") THEN None ELSE v

\* validate_and_raise, the check of @limit
LimitError(limit) ==
    IF ~Truthy(limit) THEN ""
    ELSE IF limit.t # "int" THEN "TypeError"
    ELSE IF limit.i <= 0 THEN "ValueError"
    ELSE ""

\* validate_and_raise, the check of @groupby and of @orderby
ByError(t, check) ==
    IF ~Truthy(check) THEN ""
    ELSE IF check.t # "str" THEN "TypeError"
    ELSE IF get_column(t, check) = "" THEN "ValueError"
    ELSE ""

\* the first of the errors, in the order the checks run ("" when none raises)
FirstError(errs) ==
    IF \A i \in 1..Len(errs) : errs[i] = "" THEN ""
    ELSE errs[CHOOSE i \in 1..Len(errs) :
                 errs[i] # "" /\ \A j \in 1..(i - 1) : errs[j] = ""]

\* the arguments of one call of Database.query
Query(method, table, fields, where, limit, groupby, orderby) ==
    [method |-> method, table |-> table, fields |-> fields, where |-> where,
     limit |-> limit, groupby |-> groupby, orderby |-> orderby]

\* AbstractMySqlTranslator.validate_and_raise: the exception it raises, "" for none
ValidateAndRaise(isOpen, reg, q) ==
    IF ~isOpen THEN "Exception"
    ELSE IF q.method.t # "str" THEN "TypeError"
    ELSE IF q.table.t # "str" THEN "TypeError"
    ELSE IF reg.none THEN "TypeError"
    ELSE IF get_table(reg, q.table) = "" THEN "ValueError"
    ELSE LET t == get_table(reg, q.table)
             m == q.method.s
         IN  FirstError(<<FieldsError(reg, t, m, q.fields),
                          IF Truthy(Nulled(m, "where", q.where))
                             /\ q.where # Comparison
                          THEN "TypeError" ELSE "",
                          LimitError(Nulled(m, "limit", q.limit)),
                          ByError(t, Nulled(m, "groupby", q.groupby)),
                          ByError(t, Nulled(m, "orderby", q.orderby))>>)

\* repr of a str
Repr(s) == "'" \o s \o "'"

Digit(i) ==
    CASE i = 0 -> "0" [] i = 1 -> "1" [] i = 2 -> "2" [] i = 3 -> "3" [] i = 4 -> "4"
      [] i = 5 -> "5" [] i = 6 -> "6" [] i = 7 -> "7" [] i = 8 -> "8" [] i = 9 -> "9"

RECURSIVE Digits(_)
Digits(i) == IF i < 10 THEN Digit(i) ELSE Digits(i \div 10) \o Digit(i % 10)

\* repr of an int
ReprInt(i) == IF i < 0 THEN "-" \o Digits(0 - i) ELSE Digits(i)

\* sep.join(texts)
RECURSIVE Join(_, _)
Join(sep, texts) ==
    IF texts = <<>> THEN ""
    ELSE IF Len(texts) = 1 THEN texts[1]
    ELSE texts[1] \o sep \o Join(sep, Tail(texts))

Texts(items) == [i \in 1..Len(items) |-> items[i].s]

\* the modifiers translate still holds when it reaches the extras: count
\* sets orderby and limit to None, every other branch but select's groupby
\* too, and every branch but those of select, count, update, delete and
\* describe sets where to None as well
Kept(q) ==
    LET m == q.method.s
    IN  [where |-> IF m \in {"select", "count", "update", "delete", "describe"}
                   THEN q.where ELSE None,
         groupby |-> IF m \in {"select", "count"} THEN q.groupby ELSE None,
         orderby |-> IF m = "select" THEN q.orderby ELSE None,
         limit |-> IF m = "select" THEN q.limit ELSE None]

\* AbstractMySqlTranslator.where, groupby, orderby and limit: the text of the
\* clause of one modifier
ClauseText(kind, v) ==
    CASE kind = "where" -> " where " \o (IF v = Comparison THEN "<comparison>"
                                         ELSE Repr(v.s))
      [] kind = "groupby" -> " group by " \o Repr(v.s)
      [] kind = "orderby" -> " order by " \o Repr(v.s)
      [] kind = "limit" -> " limit " \o (IF v.t = "int" THEN ReprInt(v.i)
                                         ELSE Repr(v.s))

\* faulty variant: the limit clause is written first
Extras_LimitFirst(k) ==
    (IF k.limit # None THEN ClauseText("limit", k.limit) ELSE "")
    \o (IF k.where # None THEN ClauseText("where", k.where) ELSE "")
    \o (IF k.groupby # None THEN ClauseText("groupby", k.groupby) ELSE "")
    \o (IF k.orderby # None THEN ClauseText("orderby", k.orderby) ELSE "")
    \o ";"

\* the end of translate ("handle extras"): the clauses of the modifiers that
\* are not None, then the semicolon
Extras(k) ==
    (IF k.where # None THEN ClauseText("where", k.where) ELSE "")
    \o (IF k.groupby # None THEN ClauseText("groupby", k.groupby) ELSE "")
    \o (IF k.orderby # None THEN ClauseText("orderby", k.orderby) ELSE "")
    \o (IF k.limit # None THEN ClauseText("limit", k.limit) ELSE "")
    \o ";"

\* the statement translate has built before it handles the extras; the
\* values of a Mapping, which the model does not keep, are written %s, a
\* comparison is written <comparison>, a column's dtype <dtype>
Statement(reg, q) ==
    LET m == q.method.s
        table == Repr(get_table(reg, q.table))
    IN    CASE m = "select" ->
                 "select " \o (IF q.fields = StrVal("all") THEN "*"
                               ELSE IF q.fields.t = "str" THEN q.fields.s
                               ELSE Join(", ", Texts(q.fields.items)))
                           \o " from " \o table
            [] m = "count" -> "select count * from " \o table
            [] m = "delete" -> "delete from " \o table
            [] m = "describe" -> "describe " \o table
            [] m = "insert" ->
                 "insert into " \o table \o " ("
                 \o Join(", ", [i \in 1..Len(q.fields.items) |-> Repr(q.fields.items[i].s)])
                 \o ") values ("
                 \o Join(", ", [i \in 1..Len(q.fields.items) |-> "%s"]) \o ")"
            [] m = "update" ->
                 "update " \o table \o " set "
                 \o Join(", ", [i \in 1..Len(q.fields.items) |->
                                   Repr(q.fields.items[i].s) \o " = %s"])
            [] m = "drop column" ->
                 "alter table " \o table \o " drop column "
                 \o get_column(get_table(reg, q.table), q.fields) \o " <dtype>"
            [] m = "rename table" ->
                 "alter table " \o table \o " rename " \o Repr(q.fields.s)

\* AbstractMySqlTranslator.translate for a call that passed validation
Translate(reg, q) == Statement(reg, q) \o Extras(Kept(q))

\* no call on the database is in progress
NoQuery == [op |-> "idle", q |-> Query(None, None, None, None, None, None, None),
            calls |-> <<>>, err |-> "", sql |-> ""]

\* faulty variant: the statement is translated and executed before it is validated
QueryCalls_ExecuteFirst(err, dbOk) ==
    IF err # "" THEN <<"translate", "db_query", "validate_and_raise">>
    ELSE IF ~dbOk THEN <<"translate", "db_query">>
    ELSE <<"translate", "db_query", "validate_and_raise", "interpret">>

\* AbstractSqlDatabase.query: the calls it makes, in their order, when
\* validate_and_raise raises err ("" for none) and the executor succeeds or not
QueryCalls(err, dbOk) ==
    IF err # "" THEN <<"validate_and_raise">>
    ELSE IF ~dbOk THEN <<"validate_and_raise", "translate", "db_query">>
    ELSE <<"validate_and_raise", "translate", "db_query", "interpret">>

\* db.query(method, table, fields, where=, limit=, groupby=, orderby=); dbOk:
\* the executor runs the statement without an error
query(q, dbOk) ==
    LET err == ValidateAndRaise(open, tables, q)
        calls == QueryCalls(err, dbOk)
    IN  /\ lastQuery = NoQuery
        /\ lastQuery' = [op |-> "query", q |-> q, calls |-> calls,
                         err |-> IF err # "" THEN err
                                 ELSE IF ~dbOk THEN "MySQLError" ELSE "",
                         sql |-> IF "translate" \in Range(calls)
                                 THEN Translate(tables, q) ELSE ""]
        /\ UNCHANGED <<open, tables, consVars, cacheVars, schemaVars, tableVars>>

\* the caller takes the outcome of the query and goes on
ContinueQuery ==
    /\ lastQuery # NoQuery
    /\ lastQuery' = NoQuery
    /\ UNCHANGED <<open, tables, consVars, cacheVars, schemaVars, tableVars>>

(***************************************************************************)
(* The table registry of a database and the operations that change the    *)
(* schema.  A Table object is [name, cols: the columns it was built from,  *)
(* id: its identity]; Table defines no __eq__, so two Table objects are    *)
(* equal only when they are the same object.  `objects` is the list        *)
(* AbstractDatabase._tables, `attrs` the attributes set with setattr, and  *)
(* `schema` the tables the database server holds.  An operation that       *)
(* replaces a Table runs in three steps (setattr, del, append); the caller *)
(* of the operation takes no other step in between, a reader can.          *)
(***************************************************************************)
NoTable == [kind |-> "None", name |-> "", cols |-> {}, id |-> 0]

TableObject(name, cols, id) == [kind |-> "Table", name |-> name, cols |-> cols, id |-> id]

\* a table given by its name
ByName(name) == [kind |-> "str", name |-> name, cols |-> {}, id |-> 0]

\* AbstractDatabase.table_names
table_names(objs) == [i \in DOMAIN objs |-> objs[i].name]

\* list.index(x): the first position of x
IndexOf(seq, x) == CHOOSE i \in DOMAIN seq : seq[i] = x /\ \A j \in 1..(i - 1) : seq[j] # x

\* del list[i]
Delete(seq, i) == [j \in 1..(Len(seq) - 1) |-> IF j < i THEN seq[j] ELSE seq[j + 1]]

\* AbstractDatabase.get_table for a name or a Table object of this database: a
\* Table object is returned as it is, in the registry or not
GetTable(objs, t) ==
    IF t.kind = "Table" THEN t
    ELSE IF t.name \in Range(table_names(objs))
         THEN objs[IndexOf(table_names(objs), t.name)]
    ELSE NoTable

\* the column types of the database (AbstractMySqlDatabase.dtypes)
Dtypes == {"int", "text"}

\* a column definition "name dtype"
Definition(name, dtype) == [name |-> name, dtype |-> dtype]

\* AbstractTranslator.is_valid_column: the type is one of the database's and the
\* table has no column of that name
is_valid_column(t, def) == def.dtype \in Dtypes /\ def.name \notin t.cols

\* validate_and_raise for "add column", "alter column" and "drop column": the
\* table, then the column arguments; add_column always passes `after` ("None"
\* stands for its default None)
ColumnError(op, t, old, def, after) ==
    IF t = NoTable THEN "ValueError"
    ELSE IF op # "add_column" /\ old \notin t.cols THEN "ValueError"
    ELSE IF op # "drop_column" /\ ~is_valid_column(t, def) THEN "ValueError"
    ELSE IF op = "add_column" /\ after \notin t.cols /\ after # "first" THEN "ValueError"
    ELSE ""

\* the database server runs the statement without an error (db_query)
DbAccepts(sch, op, name, old, new, after) ==
    /\ name \in DOMAIN sch
    /\ op = "add_column" => new \notin sch[name] /\ (after = "first" \/ after \in sch[name])
    /\ op = "alter_column" => old \in sch[name] /\ new \notin sch[name]
    /\ op = "drop_column" => old \in sch[name]

\* the columns of the table once the server has run the statement, as the
\* `describe` query returns them
Describe(sch, op, name, old, new) ==
    CASE op = "add_column" -> sch[name] \cup {new}
      [] op = "alter_column" -> (sch[name] \ {old}) \cup {new}
      [] op = "drop_column" -> sch[name] \ {old}

\* f without the key k (delattr; dropping a table on the server)
Without(f, k) == [j \in DOMAIN f \ {k} |-> f[j]]

\* f with the key k set to v (setattr; creating a table on the server)
With(f, k, v) == [j \in DOMAIN f \cup {k} |-> IF j = k THEN v ELSE f[j]]

\* lastCall: the operation, the step it is at, the exception it raised, whether
\* the connection was open when it was called and, for an operation that
\* replaces a Table, its table argument (until it returns) and the new Table
NoCall == [op |-> "idle", table |-> NoTable, pc |-> "done", err |-> "",
           was |-> FALSE, new |-> NoTable]

\* the outcome of a call that has returned or raised
Call(op, err) == [op |-> op, table |-> NoTable, pc |-> "done", err |-> err,
                  was |-> open, new |-> NoTable]

\* the reader has looked nothing up
NoLookup == [during |-> "done", found |-> TRUE, same |-> TRUE]

\* no operation is between two of its steps
Quiet == lastCall.pc = "done"

\* add_column, alter_column and drop_column up to the setattr: the checks, the
\* statement, the describe query, and the attribute set to the new Table
Replace(op, table, old, def, after) ==
    LET t == GetTable(objects, table)
        new == TableObject(t.name, Describe(schema, op, t.name, old, def.name),
                           Cardinality(known) + 1)
        raised == IF ~open THEN "Exception"
                  ELSE IF ColumnError(op, t, old, def, after) # ""
                       THEN ColumnError(op, t, old, def, after)
                  ELSE IF ~DbAccepts(schema, op, t.name, old, def.name, after)
                       THEN "MySQLError"
                  ELSE ""
    IN  /\ Quiet
        /\ Cardinality(known) < MaxTables
        /\ IF raised # ""
           THEN /\ lastCall' = Call(op, raised)
                /\ UNCHANGED <<objects, attrs, schema, known>>
           ELSE /\ schema' = [schema EXCEPT ![t.name] = new.cols]
                /\ attrs' = With(attrs, t.name, new)
                /\ known' = known \cup {new}
                /\ lastCall' = [Call(op, "") EXCEPT !.pc = "del", !.table = table,
                                                   !.new = new]
                /\ UNCHANGED objects
        /\ seen' = NoLookup
        /\ UNCHANGED <<open, tables, lastQuery, consVars, cacheVars, tableVars>>

\* db.add_column(table, new, after)
add_column(table, def, after) ==
    Replace("add_column", table, "", def, after)

\* db.alter_column(table, old, new)
alter_column(table, old, def) ==
    Replace("alter_column", table, old, def, "")

\* db.drop_column(table, column)
drop_column(table, col) ==
    Replace("drop_column", table, col, Definition("", ""), "")

\* the old entry is taken out of the list: a Table argument is looked for by
\* identity, a name in table_names; alter_column with a Table argument that is
\* in the list evaluates the undefined `name`
ReplaceDelete ==
    LET table == lastCall.table
        found == IF table.kind = "Table" THEN table \in Range(objects)
                 ELSE table.name \in Range(table_names(objects))
        at == IF table.kind = "Table" THEN IndexOf(objects, table)
              ELSE IndexOf(table_names(objects), table.name)
    IN  /\ lastCall.pc = "del"
        /\ IF found /\ table.kind = "Table" /\ lastCall.op = "alter_column"
           THEN /\ lastCall' = [lastCall EXCEPT !.pc = "done", !.err = "NameError",
                                                !.table = NoTable]
                /\ UNCHANGED <<objects, tables>>
           ELSE /\ lastCall' = [lastCall EXCEPT !.pc = "append"]
                /\ objects' = IF found THEN Delete(objects, at) ELSE objects
                /\ tables' = Registry(table_names(objects'))
        /\ seen' = NoLookup
        /\ UNCHANGED <<attrs, schema, known, open, lastQuery, consVars, cacheVars, tableVars>>

\* self._tables.append(getattr(self, name)), and the operation returns
ReplaceAppend ==
    /\ lastCall.pc = "append"
    /\ objects' = Append(objects, attrs[lastCall.new.name])
    /\ tables' = Registry(table_names(objects'))
    /\ lastCall' = [lastCall EXCEPT !.pc = "done", !.table = NoTable]
    /\ seen' = NoLookup
    /\ UNCHANGED <<attrs, schema, known, open, lastQuery, consVars, cacheVars, tableVars>>

\* db.drop_table(table): the statement ("drop table ... if exists"), then the
\* entry is deleted from the list (list.index raises ValueError for a Table
\* that is not in it), then the attribute
drop_table(table) ==
    LET t == GetTable(objects, table)
        found == IF table.kind = "Table" THEN table \in Range(objects) ELSE TRUE
        at == IF table.kind = "Table" THEN IndexOf(objects, table)
              ELSE IndexOf(table_names(objects), table.name)
    IN  /\ Quiet
        /\ IF ~open THEN /\ lastCall' = Call("drop_table", "Exception")
                         /\ UNCHANGED <<objects, attrs, schema, tables>>
           ELSE IF t = NoTable
                THEN /\ lastCall' = Call("drop_table", "ValueError")
                     /\ UNCHANGED <<objects, attrs, schema, tables>>
           ELSE /\ schema' = Without(schema, t.name)
                /\ IF ~found
                   THEN /\ lastCall' = Call("drop_table", "ValueError")
                        /\ UNCHANGED <<objects, attrs, tables>>
                   ELSE /\ objects' = Delete(objects, at)
                        /\ tables' = Registry(table_names(objects'))
                        /\ attrs' = Without(attrs, t.name)
                        /\ lastCall' = Call("drop_table",
                                            IF t.name \in DOMAIN attrs THEN ""
                                            ELSE "AttributeError")
        /\ UNCHANGED <<known, seen, open, lastQuery, consVars, cacheVars, tableVars>>

\* db.make_table(table, columns) with one column definition: "create table" is
\* refused for a table get_table finds; for any other the statement ("create
\* table ... if not exists") runs and the describe query that follows is
\* refused, the table not being in the registry
make_table(table, def) ==
    LET t == GetTable(objects, table)
    IN  /\ Quiet
        /\ IF ~open THEN /\ lastCall' = Call("make_table", "Exception")
                         /\ UNCHANGED schema
           ELSE IF t # NoTable \/ def.dtype \notin Dtypes
                THEN /\ lastCall' = Call("make_table", "ValueError")
                     /\ UNCHANGED schema
           ELSE /\ schema' = IF table.name \in DOMAIN schema THEN schema
                             ELSE With(schema, table.name, {def.name})
                /\ lastCall' = Call("make_table", "ValueError")
        /\ UNCHANGED <<objects, attrs, known, seen, open, tables, lastQuery,
                       consVars, cacheVars, tableVars>>

\* db.move_table(old, new): validate_and_raise knows no method "rename"
move_table(old, new) ==
    /\ Quiet
    /\ lastCall' = Call("move_table", IF ~open THEN "Exception" ELSE "ValueError")
    /\ UNCHANGED <<objects, attrs, schema, known, seen, open, tables, lastQuery,
                   consVars, cacheVars, tableVars>>

\* a reader looks up the table that is being replaced, between two steps of
\* the operation: get_table(n) and the attribute of that name; `seen` holds
\* what it saw until the operation takes its next step
lookup ==
    LET n == lastCall.new.name
        listed == GetTable(objects, ByName(n))
    IN  /\ ~Quiet
        /\ seen' = [during |-> lastCall.pc,
                    found |-> listed # NoTable,
                    same |-> n \in DOMAIN attrs /\ listed = attrs[n]]
        /\ seen' # seen
        /\ UNCHANGED <<objects, attrs, schema, known, lastCall, open, tables,
                       lastQuery, consVars, cacheVars, tableVars>>

\* db.connect(): returns at once on an open connection; on a closed one it
\* reads self._database, an attribute no class sets, and raises AttributeError
\* before a connection is made
ConnectError(isOpen) == IF isOpen THEN "" ELSE "AttributeError"

connect ==
    /\ Quiet
    /\ lastCall' = Call("connect", ConnectError(open))
    /\ UNCHANGED <<objects, attrs, schema, known, seen, open, tables, lastQuery,
                   consVars, cacheVars, tableVars>>

\* the names close() cannot delete: delattr raises AttributeError for a name
\* that is no attribute, as the second of two equal names in table_names is
CloseError(objs, at) ==
    IF \E i \in DOMAIN objs :
          \/ objs[i].name \notin DOMAIN at
          \/ \E j \in 1..(i - 1) : objs[j].name = objs[i].name
    THEN "AttributeError" ELSE ""

\* the attributes close() has deleted when it returns or raises
Detached(objs, at) ==
    LET names == table_names(objs)
        stop == IF CloseError(objs, at) = "" THEN Len(objs) + 1
                ELSE CHOOSE i \in DOMAIN objs :
                        /\ \/ names[i] \notin DOMAIN at
                           \/ \E j \in 1..(i - 1) : names[j] = names[i]
                        /\ \A k \in 1..(i - 1) :
                              /\ names[k] \in DOMAIN at
                              /\ \A j \in 1..(k - 1) : names[j] # names[k]
    IN  [n \in DOMAIN at \ {names[i] : i \in 1..(stop - 1)} |-> at[n]]

\* faulty variant: the registry is detached before the attributes are deleted
Closed_DetachesFirst(isOpen, reg, objs, at) ==
    IF ~isOpen THEN [open |-> isOpen, tables |-> reg, objects |-> objs, attrs |-> at,
                     err |-> ""]
    ELSE IF CloseError(objs, at) # ""
         THEN [open |-> TRUE, tables |-> NoRegistry, objects |-> <<>>,
               attrs |-> Detached(objs, at), err |-> "AttributeError"]
    ELSE [open |-> FALSE, tables |-> NoRegistry, objects |-> <<>>,
          attrs |-> Detached(objs, at), err |-> ""]

\* what close() does to the database object
Closed(isOpen, reg, objs, at) ==
    IF ~isOpen THEN [open |-> isOpen, tables |-> reg, objects |-> objs, attrs |-> at,
                     err |-> ""]
    ELSE IF CloseError(objs, at) # ""
         THEN [open |-> TRUE, tables |-> reg, objects |-> objs,
               attrs |-> Detached(objs, at), err |-> "AttributeError"]
    ELSE [open |-> FALSE, tables |-> NoRegistry, objects |-> <<>>,
          attrs |-> Detached(objs, at), err |-> ""]

\* db.close()
close ==
    LET c == Closed(open, tables, objects, attrs)
    IN  /\ Quiet
        /\ open' = c.open /\ tables' = c.tables /\ objects' = c.objects
        /\ attrs' = c.attrs
        /\ lastCall' = Call("close", c.err)
        /\ UNCHANGED <<schema, known, seen, lastQuery, consVars, cacheVars, tableVars>>

\* db.reconnect(): self.close(), then self.connect() if close() returned
reconnect ==
    LET c == Closed(open, tables, objects, attrs)
    IN  /\ Quiet
        /\ open' = c.open /\ tables' = c.tables /\ objects' = c.objects
        /\ attrs' = c.attrs
        /\ lastCall' = Call("reconnect",
                            IF c.err # "" THEN c.err ELSE ConnectError(c.open))
        /\ UNCHANGED <<schema, known, seen, lastQuery, consVars, cacheVars, tableVars>>

(***************************************************************************)
(* Table.get_column of the core module.  A table is [name, cols: the names *)
(* of its columns in their order, eq: its db has an `eq`, as a database    *)
(* has and None has not].  A Column given to get_column is [table: the     *)
(* name of the table it is attached to, "" for none, name, at: its place   *)
(* in the table's columns, 0 when it is not one of them]; all columns have *)
(* the same dtype.  A str is the sequence of its parts: table names,       *)
(* column names and dots, none of which is a substring of another.         *)
(***************************************************************************)
ColumnRef(table, name, at) == [kind |-> "Column", table |-> table, name |-> name,
                               at |-> at, parts |-> <<>>]

StrRef(parts) == [kind |-> "str", table |-> "", name |-> "", at |-> 0, parts |-> parts]

\* a reference that is neither a Column nor a str, and the value None
NoColumn == [kind |-> "None", table |-> "", name |-> "", at |-> 0, parts |-> <<>>]

\* the column of T at place i
ColumnAt(T, i) == ColumnRef(T.name, T.cols[i], i)

\* Column.__eq__ called on the column of T at place i: NotImplementedError when
\* the table's db has no `eq`; otherwise the comparison Column it returns is
\* true when table, name and dtype are the same
ColumnEq(T, i, col) == col.table = T.name /\ col.name = T.cols[i]

\* `col in self.columns`: the members are tried in their order, each by
\* identity, then by __eq__
InColumns(T, col) ==
    LET hits == {i \in DOMAIN T.cols : col.at = i \/ (T.eq /\ ColumnEq(T, i, col))}
    IN  IF hits # {} /\ (T.eq \/ col.at = 1) THEN "True"
        ELSE IF T.eq \/ T.cols = <<>> THEN "False"
        ELSE "NotImplementedError"

\* str.replace(name, ""): the parts that are not the name
Replaced(parts, name) == SelectSeq(parts, LAMBDA x : x # name)

\* str.strip("."): without the dots at both ends
RECURSIVE Strip(_)
Strip(parts) ==
    IF parts = <<>> THEN parts
    ELSE IF Head(parts) = "." THEN Strip(Tail(parts))
    ELSE IF parts[Len(parts)] = "." THEN Strip(SubSeq(parts, 1, Len(parts) - 1))
    ELSE parts

\* Table.get_column(col): the column returned (NoColumn for None) and the
\* exception raised
Table_get_column(T, col) ==
    LET names == Range(T.cols)
        rest == Strip(Replaced(col.parts, T.name))
    IN  IF col.kind = "Column" /\ InColumns(T, col) = "NotImplementedError"
            THEN [ret |-> NoColumn, err |-> "NotImplementedError"]
        ELSE IF col.kind = "Column" /\ InColumns(T, col) = "True"
            THEN [ret |-> col, err |-> ""]
        ELSE IF col.kind = "str" /\ Len(col.parts) = 1 /\ col.parts[1] \in names
            THEN [ret |-> ColumnAt(T, IndexOf(T.cols, col.parts[1])), err |-> ""]
        ELSE IF col.kind = "str" /\ T.name \in Range(col.parts)
                /\ Len(rest) = 1 /\ rest[1] \in names
            THEN [ret |-> ColumnAt(T, IndexOf(T.cols, rest[1])), err |-> ""]
        ELSE [ret |-> NoColumn, err |-> ""]

NoGet == [op |-> "idle", T |-> [name |-> "", cols |-> <<>>, eq |-> FALSE],
          col |-> NoColumn, ret |-> NoColumn, err |-> ""]

\* tbl.get_column(col)
get_column_call(T, col) ==
    /\ got' = [op |-> "get_column", T |-> T, col |-> col,
               ret |-> Table_get_column(T, col).ret,
               err |-> Table_get_column(T, col).err]
    /\ UNCHANGED <<consVars, cacheVars, queryVars, schemaVars>>

(***************************************************************************)
(* MysqldbTranslator.interpret.  A response is None or its rows; a row is  *)
(* a tuple of values or a dict from column names to values (the cursor of  *)
(* `how` 0 gives tuples, the others dicts).  The outcome is [ret, err];    *)
(* ret is [kind, s, rows]: None, a scalar s, a list of str (written as     *)
(* rows of one value), the list of the rows, or the response as it came.   *)
(***************************************************************************)
TupleRow(vals) == [kind |-> "tuple", keys |-> <<>>, vals |-> vals]

DictRow(keys, vals) == [kind |-> "dict", keys |-> keys, vals |-> vals]

NoResponse == [none |-> TRUE, rows |-> <<>>]

Response(rs) == [none |-> FALSE, rows |-> rs]

Ret(kind, s, rs) == [kind |-> kind, s |-> s, rows |-> rs]

\* r[k] for a key k, an IntVal or a StrVal: [err, v]
Item(r, k) ==
    IF r.kind = "tuple"
    THEN IF k.t # "int" THEN [err |-> "TypeError", v |-> ""]
         ELSE IF k.i + 1 \notin DOMAIN r.vals THEN [err |-> "IndexError", v |-> ""]
         ELSE [err |-> "", v |-> r.vals[k.i + 1]]
    ELSE IF k.t # "str" \/ k.s \notin Range(r.keys) THEN [err |-> "KeyError", v |-> ""]
         ELSE [err |-> "", v |-> r.vals[IndexOf(r.keys, k.s)]]

\* the first error of a list comprehension over the rows, each row read at
\* the keys in their order ("" when none raises)
ReadError(rs, keys) ==
    LET bad == {p \in (DOMAIN rs) \X (DOMAIN keys) : Item(rs[p[1]], keys[p[2]]).err # ""}
        first == CHOOSE p \in bad :
                    \A o \in bad : p[1] < o[1] \/ (p[1] = o[1] /\ p[2] <= o[2])
    IN  IF bad = {} THEN "" ELSE Item(rs[first[1]], keys[first[2]]).err

\* the branch of interpret for count
InterpretCount(rs, how) ==
    IF rs = <<>> THEN [ret |-> Ret("None", "", <<>>), err |-> "IndexError"]
    ELSE IF how = 0
         THEN [ret |-> Ret("scalar", Item(rs[1], IntVal(0)).v, <<>>),
               err |-> Item(rs[1], IntVal(0)).err]
    ELSE IF rs[1].kind = "tuple"
         THEN [ret |-> Ret("None", "", <<>>), err |-> "AttributeError"]
    ELSE IF rs[1].vals = <<>> THEN [ret |-> Ret("None", "", <<>>), err |-> "IndexError"]
    ELSE [ret |-> Ret("scalar", rs[1].vals[1], <<>>), err |-> ""]

\* the branch of interpret for describe: the list is built, then `sql += ")"`
\* reads a local variable that was never bound
InterpretDescribe(rs, how) ==
    LET keys == IF how = 0 THEN <<IntVal(0), IntVal(1)>>
                ELSE IF how = 2 THEN <<StrVal("COLUMNS.Field"), StrVal("COLUMNS.Type")>>
                ELSE <<StrVal("Field"), StrVal("COLUMNS.Type")>>
    IN  [ret |-> Ret("None", "", <<>>),
         err |-> IF ReadError(rs, keys) # "" THEN ReadError(rs, keys)
                 ELSE "UnboundLocalError"]

\* the branch of interpret for show tables
InterpretShow(rs, how) ==
    IF how = 0
    THEN IF ReadError(rs, <<IntVal(0)>>) # ""
         THEN [ret |-> Ret("None", "", <<>>), err |-> ReadError(rs, <<IntVal(0)>>)]
         ELSE [ret |-> Ret("strs", "", [i \in DOMAIN rs |-> <<rs[i].vals[1]>>]),
               err |-> ""]
    ELSE IF \E i \in DOMAIN rs : rs[i].kind = "tuple"
         THEN [ret |-> Ret("None", "", <<>>), err |-> "AttributeError"]
    ELSE [ret |-> Ret("strs", "", [i \in DOMAIN rs |-> rs[i].vals]), err |-> ""]

\* MysqldbTranslator.interpret(results, method, table, how=how); how is 1 when
\* the caller gives none
Interpret(results, method, table, how) ==
    IF results.none THEN [ret |-> Ret("None", "", <<>>), err |-> ""]
    ELSE IF method = "count" THEN InterpretCount(results.rows, how)
    ELSE IF method = "describe" THEN InterpretDescribe(results.rows, how)
    ELSE IF method = "show" /\ table = "tables" THEN InterpretShow(results.rows, how)
    ELSE IF method \in {"select", "distinct"}
         THEN [ret |-> Ret("rows", "", results.rows), err |-> ""]
    ELSE [ret |-> Ret("raw", "", results.rows), err |-> ""]

\* translator.interpret(results, method=method, table=table, how=how)
interpret_call(results, method, table, how) ==
    /\ got' = [op |-> "interpret", results |-> results, method |-> method,
               table |-> table, how |-> how,
               ret |-> Interpret(results, method, table, how).ret,
               err |-> Interpret(results, method, table, how).err]
    /\ UNCHANGED <<consVars, cacheVars, queryVars, schemaVars>>

(***************************************************************************)
(* Column.from_definition and Column.__str__.  A str is the sequence of   *)
(* its words, all in lower case; a Column is [name, dtype, null, default,  *)
(* visible, increment, comment], dtype and comment being the words of the  *)
(* text and default [none, words] (None, or the words of the value).       *)
(***************************************************************************)
\* `opt in word`: the option is a substring of the word
InWord(opt, word) ==
    \/ word = opt
    \/ opt = "visible" /\ word = "invisible"
    \/ opt = "increment" /\ word = "auto_increment"

\* the words at which from_definition ends a default value
StopWords == {"visible", "invisible", "auto_increment", "increment", "unique", "key", "comment"}

\* seq[i:] of Python for the 1-based position i
From(seq, i) == SubSeq(seq, i, Len(seq))

\* the least position of seq that satisfies Test, 0 for none
First(seq, Test(_)) ==
    IF \E i \in DOMAIN seq : Test(seq[i])
    THEN CHOOSE i \in DOMAIN seq : Test(seq[i]) /\ \A j \in 1..(i - 1) : ~Test(seq[j])
    ELSE 0

\* Column.from_definition(definition), for a definition of at least two
\* words whose name is one word
FromDefinition(definition) ==
    LET rest == Tail(definition)
        options == <<"null", "default", "visible", "increment", "unique", "key", "comment">>
        present(opt) == \E i \in DOMAIN rest : InWord(opt, rest[i])
        first_opt == IF First(options, present) = 0 THEN ""
                     ELSE options[First(options, present)]
        holds(word) == InWord(first_opt, word)
        at == First(rest, holds)
        \* the text before the option: the words before the word that holds
        \* it and, when the option is the end of that word, its beginning
        before == SubSeq(rest, 1, at - 1)
                  \o (IF rest[at] = first_opt THEN <<>>
                      ELSE IF first_opt = "visible" THEN <<"in">> ELSE <<"auto_">>)
        prelude == CASE first_opt = "null" -> "not"
                     [] first_opt = "visible" -> "in"
                     [] first_opt = "increment" -> "auto_"
                     [] first_opt = "key" -> "primary"
                     [] OTHER -> ""
        stripped == Len(before) >= 2 /\ before[Len(before)] = prelude
        dtype == IF first_opt = "" THEN rest
                 ELSE IF stripped THEN SubSeq(before, 1, Len(before) - 1)
                 ELSE before
        words == IF first_opt = "" THEN <<>> ELSE From(rest, Len(dtype) + 1)
        isDefault(w) == w = "default"
        isComment(w) == w = "comment"
        isStop(w) == w \in StopWords
        d == First(words, isDefault)
        stop == First(From(words, d + 2), isStop)
        value == IF stop = 0 THEN From(words, d + 1) ELSE SubSeq(words, d + 1, d + stop)
    IN  [name |-> definition[1],
         dtype |-> dtype,
         null |-> ~(first_opt = "null" /\ stripped),
         default |-> IF d = 0 THEN [none |-> TRUE, words |-> <<>>]
                     ELSE [none |-> FALSE, words |-> value],
         visible |-> "visible" \in Range(words) \/ "invisible" \notin Range(words),
         increment |-> "auto_increment" \in Range(words) \/ "increment" \in Range(words),
         comment |-> IF First(words, isComment) = 0 THEN <<>>
                     ELSE From(words, First(words, isComment) + 1)]

\* Column.__str__: the name and the dtype
Column_str(col) == <<col.name>> \o col.dtype

\* col = Column.from_definition(definition), then Column.from_definition(str(col))
from_definition_call(definition) ==
    /\ got' = [op |-> "from_definition", definition |-> definition,
               col |-> FromDefinition(definition),
               again |-> FromDefinition(Column_str(FromDefinition(definition)))]
    /\ UNCHANGED <<consVars, cacheVars, queryVars, schemaVars>>

\* the database server holds tables T1 and T2
DbSchema == [t \in Range(DbTables) |-> Range(ColumnNames(t))]

\* a database object that has not been connected
NotConnected ==
    /\ open = FALSE
    /\ tables = Registry(<<>>)
    /\ lastQuery = NoQuery
    /\ objects = <<>>
    /\ attrs = [n \in {} |-> NoTable]
    /\ schema = DbSchema
    /\ known = {}
    /\ lastCall = NoCall
    /\ seen = NoLookup
    /\ got = NoGet

\* a database object with an open connection and the Table objects of the
\* server's tables in its registry and its attributes, as the tests build it
Connected ==
    /\ open = TRUE
    /\ tables = Registry(DbTables)
    /\ lastQuery = NoQuery
    /\ objects = [i \in DOMAIN DbTables |->
                     TableObject(DbTables[i], Range(ColumnNames(DbTables[i])), i)]
    /\ attrs = [n \in Range(DbTables) |-> objects[IndexOf(DbTables, n)]]
    /\ schema = DbSchema
    /\ known = Range(objects)
    /\ lastCall = NoCall
    /\ seen = NoLookup
    /\ got = NoGet

(***************************************************************************)
(* The columns of a schema are built the same way: all by Column(...)     *)
(* without a `constraints` argument (they share the default list) or all  *)
(* with constraints=[] (each has a list of its own).                       *)
(***************************************************************************)
NewColumns(cols) ==
    /\ columns = cols
    /\ defaultList = <<>>
    /\ \E shared \in BOOLEAN :
          constraints = [col \in cols |-> [shared |-> shared, own |-> <<>>]]

ConsInit ==
    /\ NewColumns({"a", "c"})
    /\ made = {}
    /\ lastOp = Idle
    /\ NoCaches
    /\ NotConnected

\* the caller takes the outcome and goes on to its next call
Continue ==
    /\ lastOp # Idle
    /\ lastOp' = Idle
    /\ UNCHANGED <<columns, defaultList, constraints, made>>
    /\ UNCHANGED <<cacheVars, queryVars, schemaVars, tableVars>>

Construct ==
    \/ \E col \in columns, nameArg \in NameArgs : Index(col, nameArg)
    \/ \E col \in columns : Unique(col, "")
    \/ \E col \in columns : PrimaryKey(col)
    \/ \E target \in columns, foreign \in columns : ForeignKey(target, foreign, "")

ConsNext ==
    \/ Continue
    \/ Construct
    \/ \E col \in columns, arg \in ConstraintArgs : get_constraint(col, arg)

\* constraints attached to, and looked up on, two columns of different tables
SpecConstraints == ConsInit /\ [][ConsNext]_vars

DropNext ==
    \/ Continue
    \/ Construct
    \/ \E k \in made : drop(k)

\* constraints attached to two columns of different tables, and dropped
SpecDrop == ConsInit /\ [][DropNext]_vars

BuildInit ==
    /\ NewColumns(Cols)
    /\ made = {}
    /\ lastOp = Idle
    /\ NoCaches
    /\ NotConnected

BuildNext ==
    \/ Continue
    \/ Construct

\* constraints constructed on three columns, two of them of the same table
SpecConstruct == BuildInit /\ [][BuildNext]_vars

\* the rows a table can hold
Rows(t) == [TableColumns(t) -> Values]

\* columns a and c, each built with a list of its own (constraints=[])
CacheInit ==
    /\ columns = {"a", "c"}
    /\ defaultList = <<>>
    /\ constraints = [col \in columns |-> [shared |-> FALSE, own |-> <<>>]]
    /\ made = {}
    /\ lastOp = Idle
    /\ NoCaches
    /\ NotConnected

CacheConstruct ==
    /\ Construct
    /\ Cardinality(made') <= MaxCached

CacheNext ==
    \/ Continue
    \/ CacheConstruct
    \/ \E k \in made, value \in Values : validate(k, value)
    \/ \E t \in Tables : \E r \in Rows(t) : InsertRow(t, r)

\* constraints constructed and validated while the tables' rows change
SpecCache == CacheInit /\ [][CacheNext]_vars

\* the sequences over S of at most n members
SeqsUpTo(S, n) == UNION {[1..m -> S] : m \in 0..n}

Injective(f) == \A i, j \in DOMAIN f : f[i] = f[j] => i = j

\* the arguments tried for Database.query
QueryMethods == {StrVal(m) : m \in Methods} \cup {IntVal(3)}

QueryTables == {StrVal("T1"), StrVal("T2"), StrVal("nope"), IntVal(3)}

FieldItems == {StrVal("a"), StrVal("zip"), IntVal(3)}

QueryFields ==
    {None, IntVal(3), StrVal("a"), StrVal("zip"), StrVal("all"), StrVal("T2")}
    \cup {Mapping(keys) : keys \in {f \in SeqsUpTo(FieldItems, MaxKeys) : Injective(f)}}
    \cup {List(items) : items \in SeqsUpTo(FieldItems, MaxKeys)}

QueryWheres == {None, Comparison, StrVal("x")}

QueryLimits == {None, IntVal(1), IntVal(0), IntVal(0 - 1), StrVal("x"), StrVal("")}

QueryGroupbys == {None, StrVal("a"), StrVal("zip"), IntVal(3)}

QueryOrderbys == {None, StrVal("b"), IntVal(3)}

Queries ==
    {Query(m, t, f, w, l, g, o) :
        m \in QueryMethods, t \in QueryTables, f \in QueryFields, w \in QueryWheres,
        l \in QueryLimits, g \in QueryGroupbys, o \in QueryOrderbys}

\* a database object and the schema objects of its tables, with no constraints
QueryInit ==
    /\ columns = Cols
    /\ defaultList = <<>>
    /\ constraints = [col \in columns |-> [shared |-> FALSE, own |-> <<>>]]
    /\ made = {}
    /\ lastOp = Idle
    /\ NoCaches
    /\ \/ NotConnected
       \/ Connected

QueryNext ==
    \/ ContinueQuery
    \/ /\ lastQuery = NoQuery
       /\ \E q \in Queries, dbOk \in BOOLEAN : query(q, dbOk)

\* queries on a database object with an open connection and on one without
SpecQuery == QueryInit /\ [][QueryNext]_vars

\* the tables get_column is called on: T1 with no, one and two columns, of a
\* database and of no database
LookupTables == {[name |-> "T1", cols |-> cols, eq |-> eq] :
                    cols \in {<<>>, <<"a">>, <<"a", "b">>}, eq \in BOOLEAN}

\* the references tried on T: its own columns, a column of another table, a
\* column of no table, a second Column object made for T, every str of at
\* most MaxParts parts, and a value that is neither
LookupRefs(T) ==
    {ColumnAt(T, i) : i \in DOMAIN T.cols}
    \cup {ColumnRef("T2", "a", 0), ColumnRef("", "zip", 0), ColumnRef(T.name, "a", 0)}
    \cup {StrRef(parts) : parts \in SeqsUpTo({"T1", "T2", ".", "a", "b"}, MaxParts)}
    \cup {NoColumn}

LookupInit ==
    /\ columns = Cols
    /\ defaultList = <<>>
    /\ constraints = [col \in columns |-> [shared |-> FALSE, own |-> <<>>]]
    /\ made = {}
    /\ lastOp = Idle
    /\ NoCaches
    /\ NotConnected

LookupNext == \E T \in LookupTables : \E col \in LookupRefs(T) : get_column_call(T, col)

\* Table.get_column called on tables of none, one and two columns
SpecLookup == LookupInit /\ [][LookupNext]_vars

\* the rows of the responses: tuples of one and two values, and dicts with
\* the keys of a count, of a describe and of a describe with how=2
ResponseRows ==
    {TupleRow(<<"foo">>), TupleRow(<<"foo", "bar">>), DictRow(<<"a">>, <<"foo">>),
     DictRow(<<"Field", "COLUMNS.Type">>, <<"foo", "bar">>),
     DictRow(<<"COLUMNS.Field", "COLUMNS.Type">>, <<"foo", "bar">>)}

Responses == {NoResponse} \cup {Response(rs) : rs \in SeqsUpTo(ResponseRows, MaxRows)}

InterpretInit == LookupInit

InterpretNext ==
    \E results \in Responses,
       method \in {"select", "distinct", "count", "describe", "show", "insert"},
       table \in {"tables", "T1"}, how \in {0, 1, 2} :
        interpret_call(results, method, table, how)

\* interpret called on the responses of the database for each method
SpecInterpret == InterpretInit /\ [][InterpretNext]_vars

\* the definitions from_definition is tried with: a name, a dtype and then,
\* each optional and in this order, [not] null, default, [in]visible,
\* [auto_]increment and comment
ColumnDefinitions ==
    {<<"a", dtype>> \o null \o default \o visible \o increment \o comment :
        dtype \in Dtypes,
        null \in {<<>>, <<"null">>, <<"not", "null">>},
        default \in {<<>>, <<"default", "0">>, <<"default", "null">>},
        visible \in {<<>>, <<"visible">>, <<"invisible">>},
        increment \in {<<>>, <<"auto_increment">>, <<"increment">>},
        comment \in {<<>>, <<"comment", "hi">>, <<"comment", "hi", "there">>}}

DefinitionInit == LookupInit

DefinitionNext == \E definition \in ColumnDefinitions : from_definition_call(definition)

\* columns parsed from their definitions, written out and parsed again
SpecDefinition == DefinitionInit /\ [][DefinitionNext]_vars

\* the tables, the columns and the definitions the schema operations are tried with
TableArgs == {ByName(n) : n \in {"T1", "T2", "T3"}} \cup known

ColumnArgs == {"a", "x"}

Definitions == {Definition("x", "int"), Definition("a", "int"), Definition("x", "blob")}

SchemaInit ==
    /\ columns = Cols
    /\ defaultList = <<>>
    /\ constraints = [col \in columns |-> [shared |-> FALSE, own |-> <<>>]]
    /\ made = {}
    /\ lastOp = Idle
    /\ NoCaches
    /\ Connected

SchemaNext ==
    \/ \E table \in TableArgs, def \in Definitions, after \in {"None", "first", "a"} :
          add_column(table, def, after)
    \/ \E table \in TableArgs, old \in ColumnArgs, def \in Definitions :
          alter_column(table, old, def)
    \/ \E table \in TableArgs, col \in ColumnArgs : drop_column(table, col)
    \/ ReplaceDelete
    \/ ReplaceAppend
    \/ \E table \in TableArgs : drop_table(table)
    \/ \E table \in TableArgs, def \in Definitions : make_table(table, def)
    \/ \E old \in TableArgs, new \in TableArgs : move_table(old, new)
    \/ lookup
    \/ connect
    \/ close
    \/ reconnect

\* the schema operations and the connection operations on a database object
\* that starts with an open connection
SpecSchema == SchemaInit /\ [][SchemaNext]_vars

(***************************************************************************)
(* Properties of the constraint lists.                                     *)
(***************************************************************************)
\* how many members of list L carry one of `names`
CountNames(L, names) == Cardinality({i \in 1..Len(L) : L[i].name \in names})

Members(L) == {L[i] : i \in 1..Len(L)}

\* the heap after the step
HeapNext == [d |-> defaultList', c |-> constraints']

\* the step is a call of `op` (not the caller taking its outcome)
Called(op) == lastOp'.op = op /\ lastOp' # lastOp

IsPrefix(s, t) == Len(s) <= Len(t) /\ \A i \in 1..Len(s) : s[i] = t[i]

\* C1: Database.query calls validate_and_raise, translate, the executor
\* (db_query) and interpret, in that order, stopping at the first that raises;
\* when validate_and_raise raises, as it does whenever the connection is not
\* open, no other call is made, the caller gets that exception, and the table
\* registry is what it was.
C1_QueryPipeline ==
    [][lastQuery'.op = "query" /\ lastQuery' # lastQuery
       => LET r == lastQuery'
              err == ValidateAndRaise(open, tables, r.q)
          IN  /\ r.calls # <<>>
              /\ IsPrefix(r.calls, <<"validate_and_raise", "translate", "db_query",
                                     "interpret">>)
              /\ r.err = "" <=> Len(r.calls) = 4
              /\ err # "" => /\ "db_query" \notin Range(r.calls)
                             /\ r.calls = <<"validate_and_raise">>
                             /\ r.err = err
                             /\ tables' = tables /\ open' = open
              /\ ~open => err = "Exception"
              /\ err = "" => "db_query" \in Range(r.calls) /\ r.sql # ""
      ]_vars

\* C1 witness: on an open connection with its tables loaded, a query was
\* refused by validate_and_raise and nothing was executed.
C1_Witness ==
    /\ lastQuery.op = "query"
    /\ open /\ tables = Registry(DbTables)
    /\ lastQuery.err = "ValueError"
    /\ lastQuery.calls = <<"validate_and_raise">>
    /\ lastQuery.sql = ""

\* a call has a structural defect: the table, the fields, a key of the fields
\* or a modifier is of the wrong type
StructuralDefect(q) ==
    LET m == q.method.s
    IN  \/ q.table.t # "str"
        \/ m \in {"insert", "update"} /\ q.fields.t # "Mapping"
        \/ m \in {"insert", "update"} /\ q.fields.t = "Mapping"
           /\ \E k \in Range(q.fields.items) : k.t # "str"
        \/ m \in {"rename table", "drop column"} /\ q.fields.t # "str"
        \/ m = "select" /\ q.fields.t \notin {"str", "list"}
        \/ m = "select" /\ q.fields.t = "list"
           /\ \E k \in Range(q.fields.items) : k.t # "str"
        \/ Truthy(Nulled(m, "where", q.where)) /\ q.where # Comparison
        \/ Nulled(m, "limit", q.limit).t \notin {"None", "int"}
        \/ Nulled(m, "groupby", q.groupby).t \notin {"None", "str"}
        \/ Nulled(m, "orderby", q.orderby).t \notin {"None", "str"}

\* a call has a semantic defect: an unknown table, an unresolved column, a
\* name that is taken, a missing required field or a bad value of a modifier
SemanticDefect(reg, q) ==
    LET m == q.method.s
        t == get_table(reg, q.table)
        unresolved(k) == k.t = "str" /\ get_column(t, k) = ""
    IN  \/ q.table.t = "str" /\ t = ""
        \/ m \in {"insert", "update"} /\ q.fields.t = "Mapping"
           /\ \E k \in Range(q.fields.items) : unresolved(k)
        \/ m = "insert" /\ q.fields.t = "Mapping" /\ t # ""
           /\ MissingRequired(t, q.fields.items)
        \/ m = "rename table" /\ get_table(reg, q.fields) # ""
        \/ m = "drop column" /\ unresolved(q.fields)
        \/ m = "select" /\ q.fields # StrVal("all") /\ unresolved(q.fields)
        \/ m = "select" /\ q.fields.t = "list"
           /\ \E k \in Range(q.fields.items) : unresolved(k)
        \/ Nulled(m, "limit", q.limit).t = "int" /\ Nulled(m, "limit", q.limit).i < 0
        \/ unresolved(Nulled(m, "groupby", q.groupby))
        \/ unresolved(Nulled(m, "orderby", q.orderby))

\* C2 (as stated): a call of validate_and_raise, on an open connection and for
\* a method it supports, that has both a structural and a semantic defect
\* raises the structural error, TypeError.
C2_StructuralFirst ==
    /\ lastQuery.op = "query" /\ open
    /\ lastQuery.q.method \in {StrVal(m) : m \in Methods \ {"count"}}
    /\ StructuralDefect(lastQuery.q) /\ SemanticDefect(tables, lastQuery.q)
    => lastQuery.err = "TypeError"

\* C3 (as stated): in every reachable state every column's list holds at most
\* one constraint of the categories index, unique and primary.
C3_AtMostOneCategory ==
    \A col \in columns : CountNames(ListOf(Heap, col), IndexNames) <= 1

\* C3 (amended): Index, Unique and PrimaryKey attachments only append to the
\* column's list, so constraints of several categories coexist on it; the list
\* is collapsed by get_constraint alone: right after get_constraint("index") on
\* a column, and after a ForeignKey construction (which calls it on the foreign
\* column), that column's list holds at most one constraint named index, unique
\* or primary, and right after get_constraint("unique" or "primary") at most one
\* named unique or primary.
C3_CollapsedOnLookup ==
    [][/\ (Called("Index") \/ Called("Unique") \/ Called("PrimaryKey")) /\ lastOp'.err = ""
          => ListOf(HeapNext, lastOp'.col) = Append(ListOf(Heap, lastOp'.col), lastOp'.ret)
       /\ Called("get_constraint") /\ lastOp'.arg = "index"
          => CountNames(ListOf(HeapNext, lastOp'.col), IndexNames) <= 1
       /\ Called("get_constraint") /\ lastOp'.arg \in UniqueNames
          => CountNames(ListOf(HeapNext, lastOp'.col), UniqueNames) <= 1
       /\ Called("ForeignKey") /\ lastOp'.err = ""
          => CountNames(ListOf(HeapNext, lastOp'.other), IndexNames) = 1
      ]_vars

\* C3 witness: get_constraint("index") has just collapsed a list that held an
\* index and a unique constraint of the column: the unique one is left.
C3_Witness ==
    /\ lastOp.op = "get_constraint" /\ lastOp.arg = "index"
    /\ lastOp.ret.kind = "Unique"
    /\ \E k \in made : /\ k.kind = "Index" /\ k.name = "index" /\ k.target = lastOp.col
                       /\ k \notin Members(ListOf(Heap, lastOp.col))
    /\ ~constraints[lastOp.col].shared

\* C4: get_constraint("index") returns a constraint named primary if the list
\* has one, otherwise one named unique if it has one, otherwise one named index,
\* otherwise None, whatever the order of the list; after the call the returned
\* constraint is the only one of these three names left on the column, and the
\* constraints of other names (foreign keys, custom names) are all still there,
\* in their order.
C4_IndexLookupPriority ==
    [][Called("get_constraint") /\ lastOp'.arg = "index"
       => LET L == ListOf(Heap, lastOp'.col)
              after == ListOf(HeapNext, lastOp'.col)
              r == lastOp'.ret
              other(k) == k.name \notin IndexNames
          IN  /\ IF HasName(L, "primary") THEN r \in Members(L) /\ r.name = "primary"
                 ELSE IF HasName(L, "unique") THEN r \in Members(L) /\ r.name = "unique"
                 ELSE IF HasName(L, "index") THEN r \in Members(L) /\ r.name = "index"
                 ELSE r = NoConstraint
              /\ r # NoConstraint
                 => /\ CountNames(after, IndexNames) = 1
                    /\ \E i \in 1..Len(after) : after[i] = r
              /\ SelectSeq(after, other) = SelectSeq(L, other)
      ]_vars

\* C4 witness: get_constraint("index") has returned a primary key that was
\* attached after an index of the same column, which is gone, while a foreign
\* key is still on the column's list.
C4_Witness ==
    /\ lastOp.op = "get_constraint" /\ lastOp.arg = "index"
    /\ lastOp.ret.kind = "PrimaryKey"
    /\ \E k \in made : /\ k.kind = "Index" /\ k.name = "index" /\ k.target = lastOp.col
                       /\ k \notin Members(ListOf(Heap, lastOp.col))
    /\ \E k \in Members(ListOf(Heap, lastOp.col)) : k.kind = "ForeignKey"

\* C5: a second get_constraint(category) right after the first, for a category
\* index, unique or primary, returns the same constraint and leaves every
\* column's list as it was.
C5_LookupIdempotent ==
    [][Called("get_constraint") /\ lastOp'.rep /\ lastOp'.arg \in IndexNames
       => /\ lastOp'.ret = lastOp.ret
          /\ UNCHANGED <<defaultList, constraints>>
      ]_vars

\* C5 witness: the second of two calls in a row has returned the constraint
\* that survived the first call's collapse of the column's list.
C5_Witness ==
    /\ lastOp.op = "get_constraint" /\ lastOp.rep /\ lastOp.arg \in IndexNames
    /\ lastOp.ret # NoConstraint
    /\ \E k \in made : /\ k.name \in IndexNames /\ k.target = lastOp.col
                       /\ k \notin Members(ListOf(Heap, lastOp.col))
    /\ ~constraints[lastOp.col].shared

\* the column's list holds an Index, Unique or PrimaryKey object
HasIndexObject(L) == \E k \in Members(L) : k.kind \in {"Index", "Unique", "PrimaryKey"}

\* C6 (as stated): a ForeignKey construction creates a new Index on the foreign
\* column if and only if the foreign column's list held no index before, also
\* when the index it held was created with a custom name.
C6_IndexIffMissing ==
    [][Called("ForeignKey") /\ lastOp'.err = ""
       => ((\E k \in made' \ made : k.kind = "Index")
           <=> ~HasIndexObject(ListOf(Heap, lastOp'.other)))
      ]_vars

\* C7 (as stated): over any sequence of validate calls, each constraint's
\* prepare runs at most once, and a cache once built keeps its contents.
C7_CacheBuiltOnce ==
    [][\A k \in made' :
          /\ k \in DOMAIN prepares' => prepares'[k] <= 1
          /\ k \in DOMAIN values => k \in DOMAIN values' /\ values'[k] = values[k]
      ]_vars

\* C8: validate(v) of a Unique or PrimaryKey constraint raises ValueError
\* exactly when v is in the constraint's cached values; otherwise it returns
\* the constraint itself.
C8_UniqueValidate ==
    lastOp.op = "validate" /\ lastOp.self.kind \in {"Unique", "PrimaryKey"}
    => /\ HasValues(values, lastOp.self)
       /\ IF lastOp.value \in values[lastOp.self]
          THEN lastOp.err = "ValueError" /\ lastOp.ret = NoConstraint
          ELSE lastOp.err = "" /\ lastOp.ret = lastOp.self

\* C8 witness: a unique constraint has refused a value its cache holds; the
\* cache was built by an earlier call.
C8_Witness ==
    /\ lastOp.op = "validate" /\ lastOp.self.kind = "Unique"
    /\ lastOp.err = "ValueError"
    /\ lastOp.value \in values[lastOp.self]
    /\ \E v \in Values : v \notin values[lastOp.self]

\* C9: a ForeignKey construction whose target and foreign column are of the same
\* table raises ValueError and leaves every list, and the set of constraints
\* built, as it was; between columns of different tables it does not raise.
C9_SelfReferenceRejected ==
    [][Called("ForeignKey")
       => IF TableOf(lastOp'.col) = TableOf(lastOp'.other)
          THEN /\ lastOp'.err = "ValueError"
               /\ lastOp'.ret = NoConstraint
               /\ UNCHANGED <<defaultList, constraints, made>>
          ELSE lastOp'.err = ""
      ]_vars

\* C9 witness: a foreign key between two different columns of one table was
\* refused while the target column already carried a constraint.
C9_Witness ==
    /\ lastOp.op = "ForeignKey" /\ lastOp.err = "ValueError"
    /\ lastOp.col # lastOp.other
    /\ ListOf(Heap, lastOp.col) # <<>>

\* C10: PrimaryKey(col) on a nullable column raises ValueError and leaves every
\* list as it was; on a NOT NULL column it returns a primary key that is then
\* the last member of the column's list.
C10_PrimaryKeyNeedsNotNull ==
    [][Called("PrimaryKey")
       => IF ColNull(lastOp'.col)
          THEN /\ lastOp'.err = "ValueError"
               /\ UNCHANGED <<defaultList, constraints, made>>
          ELSE /\ lastOp'.err = ""
               /\ lastOp'.ret.kind = "PrimaryKey" /\ lastOp'.ret.target = lastOp'.col
               /\ ListOf(HeapNext, lastOp'.col) = Append(ListOf(Heap, lastOp'.col), lastOp'.ret)
      ]_vars

\* C10 witness: a primary key was refused on a nullable column that carries
\* other constraints.
C10_Witness ==
    /\ lastOp.op = "PrimaryKey" /\ lastOp.err = "ValueError"
    /\ ColNull(lastOp.col)
    /\ ListOf(Heap, lastOp.col) # <<>>

(***************************************************************************)
(* Properties of the table registry and of the connection.                 *)
(***************************************************************************)
\* the Table object constructed last for the table named n
Latest(n) == CHOOSE t \in known : t.name = n /\ \A u \in known : u.name = n => u.id <= t.id

\* C11 (as stated): when no schema operation is in progress on an open
\* connection, the registry list holds at most one Table per table name, the
\* entry of a name is the Table constructed last for it and is the attribute of
\* that name, and a table the server no longer holds has no entry.
C11_OneFreshTablePerName ==
    Quiet /\ open =>
        /\ \A i, j \in DOMAIN objects : objects[i].name = objects[j].name => i = j
        /\ \A i \in DOMAIN objects :
              /\ objects[i] = Latest(objects[i].name)
              /\ objects[i].name \in DOMAIN attrs
              /\ attrs[objects[i].name] = objects[i]
              /\ objects[i].name \in DOMAIN schema

\* C12 (as stated): a reader that looks up the table being replaced, at any
\* step of the operation, finds an entry in the registry list, and the list and
\* the attribute give it the same Table.
C12_ReaderSeesOneTable == seen.during # "done" => seen.found /\ seen.same

\* C13 (as stated): connect on an open connection and close on a closed one
\* change nothing and raise nothing, close on an open connection leaves it
\* closed with the registry detached, and reconnect, from either state, leaves
\* the connection open.
C13_TwoStateConnection ==
    [][lastCall' # lastCall =>
          /\ lastCall'.op = "connect" /\ open
                => lastCall'.err = "" /\ UNCHANGED <<open, tables, objects, attrs>>
          /\ lastCall'.op = "close" /\ ~open
                => lastCall'.err = "" /\ UNCHANGED <<open, tables, objects, attrs>>
          /\ lastCall'.op = "close" /\ open => ~open' /\ tables'.none
          /\ lastCall'.op = "reconnect" => open'
      ]_vars

(***************************************************************************)
(* Properties of Table.get_column.                                         *)
(***************************************************************************)
\* the three forms of a reference to the column of T at place i
Forms(T, i) == {ColumnAt(T, i), StrRef(<<T.cols[i]>>), StrRef(<<T.name, ".", T.cols[i]>>)}

\* C14 (as stated): for a reference that is none of the three forms of a
\* column of the table, get_column returns None and raises nothing.
C14_MissIsNone ==
    got.op = "get_column" /\ (\A i \in DOMAIN got.T.cols : got.col \notin Forms(got.T, i))
        => got.err = "" /\ got.ret = NoColumn

\* C15 (as stated): each of the three forms of a column of the table gives that
\* column, and a str gives a column only when it is the column's bare name or
\* its name qualified with the table's name.
C15_ThreeForms ==
    got.op = "get_column" =>
        /\ \A i \in DOMAIN got.T.cols :
              got.col \in Forms(got.T, i)
                  => got.err = "" /\ got.ret = ColumnAt(got.T, i)
        /\ got.col.kind = "str" /\ got.ret # NoColumn
              => got.col.parts \in {<<got.ret.name>>, <<got.T.name, ".", got.ret.name>>}

\* C16: the text translate produces is the statement followed by the clauses
\* in the order where, group by, order by, limit, and then the semicolon; a
\* clause is there only if its modifier was supplied, and a select has the
\* clause of every modifier that was supplied.
C16_ClausesInOrder ==
    lastQuery.sql # "" =>
        LET q == lastQuery.q
        IN  \E w \in {"", ClauseText("where", q.where)},
               g \in {"", ClauseText("groupby", q.groupby)},
               o \in {"", ClauseText("orderby", q.orderby)},
               l \in {"", ClauseText("limit", q.limit)} :
              /\ lastQuery.sql = Statement(tables, q) \o w \o g \o o \o l \o ";"
              /\ (w # "" => q.where # None) /\ (g # "" => q.groupby # None)
              /\ (o # "" => q.orderby # None) /\ (l # "" => q.limit # None)
              /\ q.method.s = "select" =>
                    /\ (q.where # None => w # "") /\ (q.groupby # None => g # "")
                    /\ (q.orderby # None => o # "") /\ (q.limit # None => l # "")

\* a select with all four modifiers has been translated
C16_Witness ==
    /\ lastQuery.q.method.s = "select"
    /\ lastQuery.q.where # None /\ lastQuery.q.groupby # None
    /\ lastQuery.q.orderby # None /\ lastQuery.q.limit = IntVal(1)
    /\ lastQuery.sql
         = "select * from 'T1' where <comparison> group by 'a' order by 'b' limit 1;"

\* the call q without the modifiers its method does not use: a select uses
\* all four, an update and a delete the where clause, the others none
Bare(q) ==
    LET m == q.method.s
    IN  [q EXCEPT !.where = IF m \in {"select", "update", "delete"} THEN @ ELSE None,
                  !.groupby = IF m = "select" THEN @ ELSE None,
                  !.orderby = IF m = "select" THEN @ ELSE None,
                  !.limit = IF m = "select" THEN @ ELSE None]

\* C17 (as stated): on an open connection, a call of insert, rename table,
\* describe, update or delete that is valid without the modifiers its method
\* does not use is accepted whatever those modifiers are, and its text is the
\* text of the call without them.
C17_UnusedModifiersIgnored ==
    /\ lastQuery.op = "query" /\ open
    /\ lastQuery.q.method
         \in {StrVal(m) : m \in {"insert", "rename table", "describe", "update", "delete"}}
    /\ ValidateAndRaise(open, tables, Bare(lastQuery.q)) = ""
    => /\ lastQuery.err \in {"", "MySQLError"}
       /\ lastQuery.sql = Translate(tables, Bare(lastQuery.q))

\* C18 (as stated): on an open connection, an insert into an existing table,
\* with no modifiers, is rejected exactly when fields is not a mapping, some
\* key does not resolve to a column of the table, or some non-nullable column
\* without a default is the column of no key.
C18_InsertRejectedExactlyWhen ==
    LET q == lastQuery.q
        t == get_table(tables, q.table)
    IN  /\ lastQuery.op = "query" /\ open
        /\ q.method = StrVal("insert") /\ t # ""
        /\ q.where = None /\ q.limit = None /\ q.groupby = None /\ q.orderby = None
        => (lastQuery.err \notin {"", "MySQLError"}
              <=> \/ q.fields.t # "Mapping"
                  \/ \E k \in Range(q.fields.items) : get_column(t, k) = ""
                  \/ \E c \in Range(ColumnNames(t)) :
                        /\ ~ColNull(c) /\ ~ColDefault(c)
                        /\ \A k \in Range(q.fields.items) : get_column(t, k) # c)

\* C19 (as stated): a select whose limit is given and is not an integer
\* greater than zero is rejected by validate_and_raise and no text is produced
\* for it.
C19_LimitPositive ==
    /\ lastQuery.op = "query"
    /\ lastQuery.q.method = StrVal("select")
    /\ lastQuery.q.limit # None
    /\ ~(lastQuery.q.limit.t = "int" /\ lastQuery.q.limit.i > 0)
    => lastQuery.err \notin {"", "MySQLError"} /\ lastQuery.sql = ""

\* C20 (as stated): on an open connection, query('count', table) on an
\* existing table, with no fields and no modifiers, passes validate_and_raise,
\* is translated to a select count statement and, unless the database fails,
\* is interpreted.
C20_CountIsAnOperation ==
    LET q == lastQuery.q
    IN  /\ lastQuery.op = "query" /\ open
        /\ q.method = StrVal("count") /\ get_table(tables, q.table) # ""
        /\ q.fields = None
        /\ q.where = None /\ q.limit = None /\ q.groupby = None /\ q.orderby = None
        => /\ lastQuery.err \in {"", "MySQLError"}
           /\ lastQuery.sql = "select count * from " \o Repr(q.table.s) \o ";"
           /\ lastQuery.err = "" => "interpret" \in Range(lastQuery.calls)

\* C21 (as stated): on an open connection, move_table(old, new) with new the
\* name of a table of the registry raises and leaves the registry as it was;
\* with old in the registry and new not in it, it raises nothing and the
\* registry then has an entry named new and none named old.
C21_MoveTableRenames ==
    [][\A old \in TableArgs, new \in TableArgs :
          move_table(old, new) /\ open =>
              IF GetTable(objects, new) # NoTable
              THEN lastCall'.err # "" /\ objects' = objects
              ELSE GetTable(objects, old) # NoTable =>
                      /\ lastCall'.err = ""
                      /\ new.name \in Range(table_names(objects'))
                      /\ old.name \notin Range(table_names(objects'))
      ]_vars

\* C22 (as stated): on an open connection, add_column on a table of the
\* registry with a valid column definition passes validation exactly when
\* `after` is not given, is 'first', or is a column of the table.
C22_AfterIsOptional ==
    [][\A table \in TableArgs, def \in Definitions, after \in {"None", "first", "a"} :
          /\ add_column(table, def, after) /\ open
          /\ GetTable(objects, table) # NoTable
          /\ is_valid_column(GetTable(objects, table), def)
          => (lastCall'.err \in {"", "MySQLError"}
                <=> after \in {"None", "first"} \cup GetTable(objects, table).cols)
      ]_vars

\* the rows of a response are in the format interpret reads for the method
\* and the cursor: a count has one row of one value, the rows of a describe
\* have a field and a type, the rows of show tables one value
Readable(rs, method, how) ==
    LET fits(r, n) == r.kind = (IF how = 0 THEN "tuple" ELSE "dict") /\ Len(r.vals) = n
    IN  CASE method = "count" -> Len(rs) = 1 /\ fits(rs[1], 1)
          [] method = "describe" ->
                \A i \in DOMAIN rs :
                   /\ fits(rs[i], 2)
                   /\ how = 1 => rs[i].keys = <<"Field", "COLUMNS.Type">>
                   /\ how = 2 => rs[i].keys = <<"COLUMNS.Field", "COLUMNS.Type">>
          [] method = "show" -> \A i \in DOMAIN rs : fits(rs[i], 1)
          [] OTHER -> TRUE

\* C23 (as stated): interpret returns None for the response None, whatever
\* the method; for a response in the format of its method it raises nothing
\* and returns a scalar for count, a list of str for show tables and for
\* describe, and the list of the rows for select and distinct.
C23_InterpretByMethod ==
    got.op = "interpret" =>
        IF got.results.none THEN got.err = "" /\ got.ret.kind = "None"
        ELSE Readable(got.results.rows, got.method, got.how) =>
                /\ got.err = ""
                /\ got.method = "count" => got.ret.kind = "scalar"
                /\ got.method = "describe" => got.ret.kind = "strs"
                /\ got.method = "show" /\ got.table = "tables" => got.ret.kind = "strs"
                /\ got.method \in {"select", "distinct"}
                      => got.ret = Ret("rows", "", got.results.rows)

\* C24 (as stated): the column parsed from the text of a column that was
\* built from a definition has the same name, dtype, nullability, default,
\* visibility, auto-increment flag and comment as that column.
C24_DefinitionRoundTrip ==
    got.op = "from_definition" => got.again = got.col

\* C25 (as stated): validate(v) of a ForeignKey whose cache is built raises
\* ValueError when v is not among the cached keys of the foreign column, and
\* returns the constraint itself otherwise.
C25_ForeignKeyValidateContract ==
    /\ lastOp.op = "validate" /\ lastOp.self.kind = "ForeignKey"
    /\ HasValues(values, lastOp.self)
    => IF lastOp.value \in values[lastOp.self]
       THEN lastOp.err = "" /\ lastOp.ret = lastOp.self
       ELSE lastOp.err = "ValueError" /\ lastOp.ret = NoConstraint

\* C30 (as stated): validate(v) of a ForeignKey whose foreign column's index
\* lookup gives a Unique or a PrimaryKey raises nothing and reports whether
\* v is among the values of the foreign column.
C30_ForeignKeyOverUnique ==
    /\ lastOp.op = "validate" /\ lastOp.self.kind = "ForeignKey"
    /\ GetConstraint(ListOf(Heap, lastOp.self.foreign), "index").ret.kind
         \in {"Unique", "PrimaryKey"}
    => /\ lastOp.err = ""
       /\ lastOp.ret = Bool(lastOp.value
                              \in KeysOf(TableOf(lastOp.self.foreign), lastOp.self.foreign))


\* the column's list holds a constraint object of one of the kinds
Attached(L, kinds) == \E k \in Members(L) : k.kind \in kinds

\* C26: the Column flags report the attached constraints: primary is true
\* exactly when a PrimaryKey is in the column's list, unique exactly when a
\* Unique or a PrimaryKey is, key exactly when an Index, Unique or PrimaryKey
\* is (the flags are `get_constraint(category) is not None`).
C26_FlagsReportConstraints ==
    [][Called("get_constraint") /\ lastOp'.arg \in IndexNames
       => LET L == ListOf(Heap, lastOp'.col)
              flag == lastOp'.ret # NoConstraint
          IN  /\ lastOp'.arg = "primary" => (flag <=> Attached(L, {"PrimaryKey"}))
              /\ lastOp'.arg = "unique" => (flag <=> Attached(L, {"Unique", "PrimaryKey"}))
              /\ lastOp'.arg = "index"
                 => (flag <=> Attached(L, {"Index", "Unique", "PrimaryKey"}))
      ]_vars


\* C27: constraint lists are per column: in every reachable state a constraint
\* is in the list of its target column (and, for a ForeignKey, of its foreign
\* column) and in the list of no other column, also for columns created
\* without a constraints argument.
C27_ListsPerColumn ==
    \A col \in columns : \A k \in Members(ListOf(Heap, col)) :
        k.target = col \/ (k.kind = "ForeignKey" /\ k.foreign = col)


\* C28: after a constraint's drop() has returned, the constraint is in no
\* column's list (for a ForeignKey neither the target's nor the foreign
\* column's) and Table.constraints of no table reports it.
C28_DropDetaches ==
    [][Called("drop") /\ lastOp'.err = ""
       => /\ \A col \in columns : lastOp'.self \notin Members(ListOf(HeapNext, col))
          /\ \A t \in {TableOf(col) : col \in columns} :
                lastOp'.self \notin Table_constraints(HeapNext, columns, t)
      ]_vars


====
